---- MODULE Spec2Model ----
(***************************************************************************)
(* A model of the webrender display backend of remacs                      *)
(* (rust_src/src/webrender_backend): the Output's display-list lifecycle,  *)
(* the color conversions and the color-token lookup, the keyboard          *)
(* processor, the external texture table and the font driver's draw.  Each *)
(* component has its own specification over the shared variables; the      *)
(* variables of the other components stay at their initial values.         *)
(***************************************************************************)
EXTENDS Integers, Sequences, FiniteSets, TLC

VARIABLES
    \* ---- output.rs: struct Output and the libraries it drives ----
    display_list_builder,  \* Option<DisplayListBuilder>
    current_txn,           \* Option<Transaction>
    window,                \* the GlWindow: Option<logical inner size> and hidpi factor
    next_font_key,         \* the RenderApi's font key allocator
    calls,                 \* calls received by render_api, renderer and window, in order
    output_status,         \* "running", or "panicked" once an unwrap or expect failed
    history,               \* the calls made on the Output since Output::new; a
                           \* call that panicked in get_size is recorded as a panic
    \* ---- color.rs ----
    rgb8,                  \* the 8-bit (r, g, b) the caller made the color from
    color_in,              \* the ColorF handed to color_to_pixel
    pixel,                 \* Option<u64>: the packed pixel it returned
    color_out,             \* Option<ColorF>: pixel_to_color of that pixel
    color_string,          \* the token handed to lookup_color_by_name_or_hex
    lookup_result,         \* its outcome
    \* ---- keyboard.rs: struct KeyboardProcessor ----
    modifiers,             \* ModifiersState
    suppress_chars,        \* bool
    kb_last,               \* the last call on the processor and what it returned
    special_pending,       \* a mapped key_pressed returned an event and no
                           \* key_released was called since
    requested_modifiers,   \* the argument of the last change_modifiers call
    keys_down,             \* the keys physically held down on the keyboard
    \* ---- texture.rs: TextureResourceManager and its ExternalHandlers ----
    tables,                \* the heap of TextureTable objects behind an Rc;
                           \* tables[1] is the manager's
    handlers,              \* the ExternalHandlers created: each with the Rc it
                           \* holds, an index into tables, and the number of
                           \* entries of the table when the handler was created
    gl_textures,           \* the texture names the GL context has generated
    latest_insert,         \* for each id ever inserted, the size and flag of
                           \* the latest insert
    tex_last,              \* the last call on the manager or a handler and
                           \* what it returned
    tex_status             \* "running", or "panicked" once an unwrap failed

outputVars == <<display_list_builder, current_txn, window, next_font_key,
                calls, output_status, history>>
colorVars  == <<rgb8, color_in, pixel, color_out>>
lookupVars == <<color_string, lookup_result>>
kbVars     == <<modifiers, suppress_chars, kb_last, special_pending,
                requested_modifiers>>
keyVars    == <<keys_down>>
textureVars == <<tables, handlers, gl_textures, latest_insert, tex_last,
                 tex_status>>
vars == <<outputVars, colorVars, lookupVars, kbVars, keyVars, textureVars>>

\* what a step of one component leaves alone
notOutputVars == <<colorVars, lookupVars, kbVars, keyVars, textureVars>>
notColorVars  == <<outputVars, lookupVars, kbVars, keyVars, textureVars>>
notLookupVars == <<outputVars, colorVars, kbVars, keyVars, textureVars>>
notKbVars     == <<outputVars, colorVars, lookupVars, keyVars, textureVars>>
notTextureVars == <<outputVars, colorVars, lookupVars, kbVars, keyVars>>

(***************************************************************************)
(* Option<T>: None is the empty sequence, Some(x) the one-element sequence *)
(***************************************************************************)
None == <<>>
Some(x) == <<x>>
IsSome(o) == o # <<>>
IsNone(o) == o = <<>>
Unwrap(o) == o[1]

\* The outcome of a call: it returned a value, or it panicked (an unwrap or
\* an expect of None or of Err)
Returned(v) == [status |-> "returned", value |-> v]
Panicked == [status |-> "panicked", value |-> None]
NotCalled == [status |-> "not called", value |-> None]

RECURSIVE Pow2(_)
Pow2(k) == IF k = 0 THEN 1 ELSE 2 * Pow2(k - 1)

(***************************************************************************)
(*                              output.rs                                  *)
(***************************************************************************)

\* Bound on the number of calls made on one Output.
MaxCalls == 5

\* Logical window sizes the windowing library may report, and hidpi factors.
WindowSizes == {<<80, 60>>, <<100, 50>>}
HidpiFactors == {1, 2}

\* The closures handed to Output::display: each pushes these items into the
\* builder (the font driver's draw pushes a rect when with_background is
\* set and then a text run).
DrawClosures == {<<"rect", "text">>, <<"text">>, <<"rect">>}

\* The two shapes of font_kit::handle::Handle
FontHandles == {"Path", "Memory"}

PipelineId == <<0, 0>>
Epoch == <<0>>
document_id == "document"

\* Output::get_size: (device_size, layout_size) of the window.  The inner
\* size of a window is an Option, None once the window no longer exists, and
\* get_size expects it: without one it panics
get_size(w) ==
    LET device_pixel_ratio == w.hidpi_factor
        logical_size == w.inner_size
    IN  IF IsNone(logical_size)
        THEN Panicked
        ELSE Returned(
               [device_size |-> <<Unwrap(logical_size)[1] * device_pixel_ratio,
                                  Unwrap(logical_size)[2] * device_pixel_ratio>>,
                layout_size |-> Unwrap(logical_size)])

\* DisplayListBuilder::new(pipeline_id, layout_size)
DisplayListBuilder_new(pipeline_id, layout_size) ==
    [pipeline_id |-> pipeline_id, content_size |-> layout_size, items |-> <<>>]

\* Transaction::new()
Transaction_new == <<>>

\* The calls Output::new makes through create_webrender_window, once the
\* window w, the renderer and the render api exist: it presents the cleared
\* window, adds the document and sets its root pipeline
create_webrender_window(w) ==
    LET device_size == get_size(w).value.device_size
        pipeline_id == PipelineId
        txn == Transaction_new \o <<[msg |-> "set_root_pipeline",
                                     pipeline_id |-> pipeline_id]>>
    IN  << [call |-> "swap_buffers"],
           [call |-> "add_document", device_size |-> device_size, layer |-> 0],
           [call |-> "send_transaction", document |-> document_id, txn |-> txn] >>

CanCall == output_status = "running" /\ Len(history) < MaxCalls

\* The call `call` of the Output panics in get_size: nothing of the Output
\* has changed yet; made is the record of the calls made so far
get_size_panics(call, made) ==
    /\ output_status' = "panicked"
    /\ history' = Append(made, [op |-> "panic", call |-> call, at |-> "get_size"])
    /\ UNCHANGED <<display_list_builder, current_txn, window, next_font_key, calls,
                   notOutputVars>>

\* Output::display(f) with the `is_none` test dropped: every call starts a new pair
DisplayAlwaysNew(f) ==
    /\ CanCall
    /\ IF get_size(window).status = "panicked"
       THEN get_size_panics("display", history)
       ELSE /\ display_list_builder' =
                   Some([DisplayListBuilder_new(PipelineId,
                                                get_size(window).value.layout_size)
                             EXCEPT !.items = @ \o f])
            /\ current_txn' = Some(Transaction_new)
            /\ history' = Append(history, [op |-> "display", f |-> f])
            /\ UNCHANGED <<window, next_font_key, calls, output_status, notOutputVars>>

\* Output::display(f)
Display(f) ==
    /\ CanCall
    /\ IF IsNone(display_list_builder) /\ get_size(window).status = "panicked"
       THEN get_size_panics("display", history)
       ELSE /\ LET opened_builder ==
                       IF IsNone(display_list_builder)
                       THEN Some(DisplayListBuilder_new(PipelineId,
                                                        get_size(window).value.layout_size))
                       ELSE display_list_builder
                   opened_txn ==
                       IF IsNone(display_list_builder)
                       THEN Some(Transaction_new)
                       ELSE current_txn
               IN  IF IsSome(opened_builder) /\ IsSome(opened_txn)
                   THEN /\ display_list_builder' =
                               Some([Unwrap(opened_builder) EXCEPT !.items = @ \o f])
                        /\ current_txn' = opened_txn
                   ELSE /\ display_list_builder' = opened_builder
                        /\ current_txn' = opened_txn
            /\ history' = Append(history, [op |-> "display", f |-> f])
            /\ UNCHANGED <<window, next_font_key, calls, output_status, notOutputVars>>

\* The library calls of an open flush, up to and including render
FlushCallsToRender(builder, txn, size) ==
    LET sent == txn \o <<[msg |-> "set_display_list", epoch |-> Epoch,
                          layout_size |-> size.layout_size,
                          content_size |-> builder.content_size,
                          items |-> builder.items],
                         [msg |-> "generate_frame"]>>
    IN  << [call |-> "send_transaction", document |-> document_id, txn |-> sent],
           [call |-> "flush_scene_builder"],
           [call |-> "update"],
           [call |-> "render", device_size |-> size.device_size] >>

FlushCallsAfterRender ==
    << [call |-> "flush_pipeline_info"], [call |-> "swap_buffers"] >>

\* Output::flush that takes the builder out and leaves the transaction in place
FlushKeepsTxn(render_ok) ==
    /\ CanCall
    /\ IF get_size(window).status = "panicked"
       THEN get_size_panics("flush", history)
       ELSE /\ LET size == get_size(window).value
                   builder == display_list_builder
                   txn == current_txn
               IN  /\ display_list_builder' = None
                   /\ current_txn' = current_txn
                   /\ IF IsSome(builder) /\ IsSome(txn)
                      THEN IF render_ok
                           THEN /\ calls' = calls
                                      \o FlushCallsToRender(Unwrap(builder), Unwrap(txn), size)
                                      \o FlushCallsAfterRender
                                /\ output_status' = "running"
                           ELSE /\ calls' = calls
                                      \o FlushCallsToRender(Unwrap(builder), Unwrap(txn), size)
                                /\ output_status' = "panicked"
                      ELSE /\ calls' = calls
                           /\ output_status' = output_status
            /\ history' = Append(history, [op |-> "flush"])
            /\ UNCHANGED <<window, next_font_key, notOutputVars>>

\* Output::flush; it calls get_size first, before it takes the slots.
\* render_ok is the outcome of Renderer::render, which flush unwraps
Flush(render_ok) ==
    /\ CanCall
    /\ IF get_size(window).status = "panicked"
       THEN get_size_panics("flush", history)
       ELSE /\ LET size == get_size(window).value
                   builder == display_list_builder
                   txn == current_txn
               IN  /\ display_list_builder' = None
                   /\ current_txn' = None
                   /\ IF IsSome(builder) /\ IsSome(txn)
                      THEN IF render_ok
                           THEN /\ calls' = calls
                                      \o FlushCallsToRender(Unwrap(builder), Unwrap(txn), size)
                                      \o FlushCallsAfterRender
                                /\ output_status' = "running"
                           ELSE /\ calls' = calls
                                      \o FlushCallsToRender(Unwrap(builder), Unwrap(txn), size)
                                /\ output_status' = "panicked"
                      ELSE /\ calls' = calls
                           /\ output_status' = output_status
            /\ history' = Append(history, [op |-> "flush"])
            /\ UNCHANGED <<window, next_font_key, notOutputVars>>

\* Output::add_font(font_handle)
AddFont(font_handle) ==
    /\ CanCall
    /\ LET font_key == next_font_key
           txn == IF font_handle = "Path"
                  THEN <<[msg |-> "add_native_font", key |-> font_key]>>
                  ELSE <<[msg |-> "add_raw_font", key |-> font_key]>>
       IN  /\ calls' = Append(calls, [call |-> "send_transaction",
                                       document |-> document_id, txn |-> txn])
           /\ next_font_key' = next_font_key + 1
    /\ history' = Append(history, [op |-> "add_font", handle |-> font_handle])
    /\ UNCHANGED <<display_list_builder, current_txn, window, output_status, notOutputVars>>

\* Output::show_window
ShowWindow ==
    /\ CanCall
    /\ calls' = Append(calls, [call |-> "show"])
    /\ history' = Append(history, [op |-> "show_window"])
    /\ UNCHANGED <<display_list_builder, current_txn, window, next_font_key,
                   output_status, notOutputVars>>

\* Output::hide_window
HideWindow ==
    /\ CanCall
    /\ calls' = Append(calls, [call |-> "hide"])
    /\ history' = Append(history, [op |-> "hide_window"])
    /\ UNCHANGED <<display_list_builder, current_txn, window, next_font_key,
                   output_status, notOutputVars>>

\* The windowing library resizes the window (the user or the window manager)
Resize(size) ==
    /\ CanCall
    /\ IsSome(window.inner_size)
    /\ size # Unwrap(window.inner_size)
    /\ window' = [window EXCEPT !.inner_size = Some(size)]
    /\ history' = Append(history, [op |-> "resize", size |-> size])
    /\ UNCHANGED <<display_list_builder, current_txn, next_font_key, calls, output_status,
                   notOutputVars>>

\* The window stops existing (the user or the window manager destroys it):
\* from then on the windowing library reports no inner size
CloseWindow ==
    /\ CanCall
    /\ IsSome(window.inner_size)
    /\ window' = [window EXCEPT !.inner_size = None]
    /\ history' = Append(history, [op |-> "close_window"])
    /\ UNCHANGED <<display_list_builder, current_txn, next_font_key, calls, output_status,
                   notOutputVars>>

(***************************************************************************)
(*                               color.rs                                  *)
(*                                                                         *)
(* An f32 is modelled exactly: zero is F32Zero, any other (positive,       *)
(* normal) value is the pair <<m, e>> that stands for m * 2^e with         *)
(* 2^23 <= m < 2^24, and every operation rounds to nearest, ties to even,  *)
(* as IEEE 754 single precision does.                                      *)
(***************************************************************************)
Two16 == Pow2(16)
Two23 == Pow2(23)
Two24 == Pow2(24)

F32Zero == <<0, 0>>
F32One == <<Two23, -23>>

\* quotient bits of rem/d appended to q until q has 24 bits
RECURSIVE DivBits(_, _, _, _)
DivBits(q, rem, d, shifts) ==
    IF q >= Two23
    THEN [q |-> q, rem |-> rem, shifts |-> shifts]
    ELSE DivBits(2 * q + (IF 2 * rem >= d THEN 1 ELSE 0),
                 (2 * rem) % d, d, shifts + 1)

\* `n as f32 / 255.0` for an integer 0 <= n < 2^24
F32Div255(n) ==
    IF n = 0 THEN F32Zero
    ELSE LET b == DivBits(n \div 255, n % 255, 255, 0)
             up == \/ 2 * b.rem > 255
                   \/ (2 * b.rem = 255 /\ b.q % 2 = 1)
             q == IF up THEN b.q + 1 ELSE b.q
         IN  IF q = Two24 THEN <<Two23, 1 - b.shifts>> ELSE <<q, -b.shifts>>

\* `x * 255.0`
F32Mul255(x) ==
    IF x = F32Zero THEN F32Zero
    ELSE LET m == x[1]
             \* 255 * m has 31 bits when it is below 2^31 and 32 bits otherwise
             s == IF m <= (Two24 * 127 + (Two24 - 1)) \div 255 THEN 7 ELSE 8
             h == m \div Pow2(s)
             l == m % Pow2(s)
             q0 == 255 * h + ((255 * l) \div Pow2(s))
             rem == (255 * l) % Pow2(s)
             up == \/ 2 * rem > Pow2(s)
                   \/ (2 * rem = Pow2(s) /\ q0 % 2 = 1)
             q == IF up THEN q0 + 1 ELSE q0
         IN  IF q = Two24 THEN <<Two23, x[2] + s + 1>> ELSE <<q, x[2] + s>>

\* `x as u64` for 0 <= x < 2^24: the fraction is dropped
F32ToU64(x) ==
    IF x = F32Zero THEN 0
    ELSE IF x[2] >= 0 THEN x[1] * Pow2(x[2])
    ELSE IF -x[2] > 24 THEN 0
    ELSE x[1] \div Pow2(-x[2])

\* bitwise or of two naturals
RECURSIVE BitOr(_, _)
BitOr(a, b) ==
    IF a = 0 THEN b
    ELSE IF b = 0 THEN a
    ELSE 2 * BitOr(a \div 2, b \div 2) + (IF a % 2 = 1 \/ b % 2 = 1 THEN 1 ELSE 0)

\* A u64 is the sequence of its four 16-bit lanes, lane 1 being bits 0-15.
\* v << (16 * k) for a v below 2^31
U64Shl16(v, k) ==
    [i \in 1..4 |-> IF i = k + 1 THEN v % Two16
                    ELSE IF i = k + 2 THEN (v \div Two16) % Two16
                    ELSE 0]

U64Or(a, b) == [i \in 1..4 |-> BitOr(a[i], b[i])]

ColorF_new(r, g, b, a) == [r |-> r, g |-> g, b |-> b, a |-> a]

\* pixel_to_color; the transmute to [u16; 4] is that of a little-endian
\* target, where pixel_array[0] is bits 0-15.
pixel_to_color(p) ==
    LET pixel_array == p
    IN  ColorF_new(F32Div255(pixel_array[1]),
                   F32Div255(pixel_array[2]),
                   F32Div255(pixel_array[3]),
                   F32One)

\* color_to_pixel with the red and the blue shift exchanged
color_to_pixel_bgr(color) ==
    LET red == F32Mul255(color.r)
        green == F32Mul255(color.g)
        blue == F32Mul255(color.b)
    IN  U64Or(U64Or(U64Shl16(F32ToU64(red), 2), U64Shl16(F32ToU64(green), 1)),
              U64Shl16(F32ToU64(blue), 0))

\* color_to_pixel
color_to_pixel(color) ==
    LET red == F32Mul255(color.r)
        green == F32Mul255(color.g)
        blue == F32Mul255(color.b)
    IN  U64Or(U64Or(U64Shl16(F32ToU64(blue), 2), U64Shl16(F32ToU64(green), 1)),
              U64Shl16(F32ToU64(red), 0))

\* The largest value of an 8-bit channel
MaxChannel == 255

\* The values the two channels that are not swept take
ChannelSamples == {0, 1, 128, 255}

\* The 8-bit colors handed to color_to_pixel: one channel sweeps 0..255
\* while the other two take the sample values
ChannelTriples ==
    ((0..MaxChannel) \X ChannelSamples \X ChannelSamples)
    \cup (ChannelSamples \X (0..MaxChannel) \X ChannelSamples)
    \cup (ChannelSamples \X ChannelSamples \X (0..MaxChannel))

\* the color (r/255, g/255, b/255, 1.0) of an 8-bit triple
ColorOf(t) == ColorF_new(F32Div255(t[1]), F32Div255(t[2]), F32Div255(t[3]), F32One)

ColorToPixel ==
    /\ IsNone(pixel)
    /\ pixel' = Some(color_to_pixel(color_in))
    /\ UNCHANGED <<rgb8, color_in, color_out, notColorVars>>

PixelToColor ==
    /\ IsSome(pixel)
    /\ IsNone(color_out)
    /\ color_out' = Some(pixel_to_color(Unwrap(pixel)))
    /\ UNCHANGED <<rgb8, color_in, pixel, notColorVars>>

(***************************************************************************)
(*                 color.rs: lookup_color_by_name_or_hex                   *)
(*                                                                         *)
(* A &str is the sequence of its characters, each a one-character string;  *)
(* the tokens are ASCII, so byte offsets and character offsets agree.      *)
(***************************************************************************)
DecDigits == <<"0", "1", "2", "3", "4", "5", "6", "7", "8", "9">>
UpperChars == <<"A", "B", "C", "D", "E", "F", "G", "H", "I", "J", "K", "L", "M",
                "N", "O", "P", "Q", "R", "S", "T", "U", "V", "W", "X", "Y", "Z">>
LowerChars == <<"a", "b", "c", "d", "e", "f", "g", "h", "i", "j", "k", "l", "m",
                "n", "o", "p", "q", "r", "s", "t", "u", "v", "w", "x", "y", "z">>

IndexIn(seq, c) == CHOOSE i \in 1..Len(seq) : seq[i] = c
Occurs(seq, c) == \E i \in 1..Len(seq) : seq[i] = c

Ok(v) == [ok |-> TRUE, val |-> v]
Err == [ok |-> FALSE, val |-> 0]

\* char::to_digit(16)
to_digit16(c) ==
    IF Occurs(DecDigits, c) THEN Ok(IndexIn(DecDigits, c) - 1)
    ELSE IF Occurs(LowerChars, c) /\ IndexIn(LowerChars, c) <= 6
         THEN Ok(IndexIn(LowerChars, c) + 9)
    ELSE IF Occurs(UpperChars, c) /\ IndexIn(UpperChars, c) <= 6
         THEN Ok(IndexIn(UpperChars, c) + 9)
    ELSE Err

\* the digit loop of from_str_radix for u8: every character must be a digit
\* and the value must stay within u8
RECURSIVE parse_digits16(_, _)
parse_digits16(digits, acc) ==
    IF digits = <<>> THEN Ok(acc)
    ELSE LET d == to_digit16(Head(digits))
         IN  IF ~d.ok THEN Err
             ELSE IF acc * 16 + d.val > 255 THEN Err
             ELSE parse_digits16(Tail(digits), acc * 16 + d.val)

\* u8::from_str_radix(src, 16): an empty string and a lone sign are errors,
\* a leading '+' is skipped, a '-' is no digit of an unsigned type
u8_from_str_radix16(src) ==
    IF src = <<>> THEN Err
    ELSE IF Len(src) = 1 /\ Head(src) \in {"+", "-"} THEN Err
    ELSE IF Head(src) = "+" THEN parse_digits16(Tail(src), 0)
    ELSE parse_digits16(src, 0)

\* &s[from..to] (from inclusive, to exclusive, counted from 0): an Err stands
\* for the panic of a range that ends past the string
str_slice(s, from, to) ==
    IF from <= to /\ to <= Len(s) THEN Ok(SubSeq(s, from + 1, to)) ELSE Err

\* to_lowercase left out of the lookup
to_lowercase_identity(s) == s

\* str::to_lowercase on ASCII text
to_lowercase_char(c) ==
    IF Occurs(UpperChars, c) THEN LowerChars[IndexIn(UpperChars, c)] ELSE c
to_lowercase(s) == [i \in 1..Len(s) |-> to_lowercase_char(s[i])]

starts_with(s, c) == s # <<>> /\ Head(s) = c

\* colors::COLOR_MAP, the name -> (r, g, b) table that the build generates
COLOR_MAP == [name \in {<<"r", "e", "d">>} |-> <<255, 0, 0>>]

HashMap_get(map, key) == IF key \in DOMAIN map THEN Some(map[key]) ELSE None

\* one `u8::from_str_radix(&color_string[from..to], 16)`, not yet unwrapped
hex_byte(s, from, to) ==
    LET slice == str_slice(s, from, to)
    IN  IF slice.ok THEN u8_from_str_radix16(slice.val) ELSE Err

\* lookup_color_by_name_or_hex with the green and the blue range exchanged
lookup_color_swapped(s) ==
    IF starts_with(s, "#")
    THEN LET red == hex_byte(s, 1, 3)
             green == hex_byte(s, 5, 7)
             blue == hex_byte(s, 3, 5)
         IN  IF red.ok /\ green.ok /\ blue.ok
             THEN Returned(Some(<<red.val, green.val, blue.val>>))
             ELSE Panicked
    ELSE Returned(HashMap_get(COLOR_MAP, to_lowercase(s)))

\* lookup_color_by_name_or_hex
lookup_color_by_name_or_hex(s) ==
    IF starts_with(s, "#")
    THEN LET red == hex_byte(s, 1, 3)
             green == hex_byte(s, 3, 5)
             blue == hex_byte(s, 5, 7)
         IN  IF red.ok /\ green.ok /\ blue.ok
             THEN Returned(Some(<<red.val, green.val, blue.val>>))
             ELSE Panicked
    ELSE Returned(HashMap_get(COLOR_MAP, to_lowercase(s)))

\* Bounds on the tokens: the characters after the '#', and the characters of a name
MaxHexLen == 7
MaxNameLen == 3

HexChars == {"0", "a", "F", "+", "-"}
NameChars == {"r", "R", "e", "E", "d", "D"}

SeqsUpTo(S, n) == UNION { [1..k -> S] : k \in 0..n }

HexTokens == { <<"#">> \o t : t \in SeqsUpTo(HexChars, MaxHexLen) }
NameTokens == SeqsUpTo(NameChars, MaxNameLen)

Lookup ==
    /\ lookup_result = NotCalled
    /\ lookup_result' = lookup_color_by_name_or_hex(color_string)
    /\ UNCHANGED <<color_string, notLookupVars>>

(***************************************************************************)
(*                             keyboard.rs                                 *)
(***************************************************************************)

\* The code points of the characters received: all of ASCII up to the bound
\* MaxChar, and code points past it, past 255 and past 65535
MaxChar == 127
HighChars == {128, 172, 255, 256, 257, 283, 321, 353, 8364, 128512}
CharCodes == (0..MaxChar) \cup HighChars

\* glutin's VirtualKeyCode: the keys modelled and the discriminant of each,
\* which is what `key_code as u32` yields
VirtualKeyCode ==
    [Key1 |-> 0, A |-> 10, Escape |-> 36, F1 |-> 37, Back |-> 74,
     Return |-> 75, Space |-> 76]
KeyCodes == DOMAIN VirtualKeyCode

\* glutin's ModifiersState: the set of the modifiers that are down
ModifiersStates == SUBSET {"alt", "shift", "ctrl", "logo"}
ModifiersState_empty == {}

\* the host's modifier bits (lisp.h: CHAR_META, CHAR_CTL, CHAR_SHIFT, CHAR_SUPER)
meta_modifier == Pow2(27)
ctrl_modifier == Pow2(26)
shift_modifier == Pow2(25)
super_modifier == Pow2(23)

Qnil == "nil"
top_frame == "top_frame"

\* to_emacs_modifiers with the shift and ctrl bits exchanged
to_emacs_modifiers_swapped(m) ==
    LET m0 == 0
        m1 == IF "alt" \in m THEN BitOr(m0, meta_modifier) ELSE m0
        m2 == IF "shift" \in m THEN BitOr(m1, ctrl_modifier) ELSE m1
        m3 == IF "ctrl" \in m THEN BitOr(m2, shift_modifier) ELSE m2
        m4 == IF "logo" \in m THEN BitOr(m3, super_modifier) ELSE m3
    IN  m4

\* KeyboardProcessor::to_emacs_modifiers
to_emacs_modifiers(m) ==
    LET m0 == 0
        m1 == IF "alt" \in m THEN BitOr(m0, meta_modifier) ELSE m0
        m2 == IF "shift" \in m THEN BitOr(m1, shift_modifier) ELSE m1
        m3 == IF "ctrl" \in m THEN BitOr(m2, ctrl_modifier) ELSE m2
        m4 == IF "logo" \in m THEN BitOr(m3, super_modifier) ELSE m3
    IN  m4

\* remove_control without the lower-casing step
remove_control_upper(c) ==
    LET c8 == c % 256
    IN  IF c8 < 32 THEN c8 + 64 ELSE c8

\* KeyboardProcessor::remove_control; `c as u8` keeps the low eight bits
remove_control(c) ==
    LET c8 == c % 256
    IN  IF c8 < 32
        THEN LET new_c == c8 + 64
             IN  IF new_c >= 65 /\ new_c <= 90 THEN new_c + 32 ELSE new_c
        ELSE c8

\* winit_keycode_emacs_key_name with the Return arm missing
winit_keycode_without_return(keycode) ==
    IF keycode = "Escape" THEN Some("escape")
    ELSE IF keycode = "Back" THEN Some("backspace")
    ELSE None

\* winit_keycode_emacs_key_name: the name, or None for the null pointer
winit_keycode_emacs_key_name(keycode) ==
    IF keycode = "Escape" THEN Some("escape")
    ELSE IF keycode = "Back" THEN Some("backspace")
    ELSE IF keycode = "Return" THEN Some("return")
    ELSE None

input_event(kind, code, mods, frame) ==
    [kind |-> kind, part |-> "scroll_bar_nowhere", code |-> code,
     modifiers |-> mods, x |-> 0, y |-> 0, timestamp |-> 0,
     frame_or_window |-> frame, arg |-> Qnil]

KbCall(op, c, key, result) == [op |-> op, char |-> c, key |-> key, result |-> result]

\* what KeyboardProcessor::receive_char returns
receive_char(c, frame) ==
    IF suppress_chars THEN None
    ELSE Some(input_event("ASCII_KEYSTROKE_EVENT", remove_control(c),
                          to_emacs_modifiers(modifiers), frame))

ReceiveChar(c) ==
    /\ kb_last' = KbCall("receive_char", c, "", receive_char(c, top_frame))
    /\ UNCHANGED <<modifiers, suppress_chars, special_pending,
                     requested_modifiers, notKbVars>>

\* key_pressed that forgets to set suppress_chars
KeyPressedNoSuppress(key_code) ==
    IF IsNone(winit_keycode_emacs_key_name(key_code))
    THEN /\ kb_last' = KbCall("key_pressed", -1, key_code, None)
         /\ UNCHANGED <<modifiers, suppress_chars, special_pending,
                     requested_modifiers, notKbVars>>
    ELSE /\ kb_last' = KbCall("key_pressed", -1, key_code,
                          Some(input_event("NON_ASCII_KEYSTROKE_EVENT",
                                           VirtualKeyCode[key_code],
                                           to_emacs_modifiers(modifiers), top_frame)))
         /\ special_pending' = TRUE
         /\ UNCHANGED <<modifiers, suppress_chars, requested_modifiers, notKbVars>>

\* KeyboardProcessor::key_pressed
KeyPressed(key_code) ==
    IF IsNone(winit_keycode_emacs_key_name(key_code))
    THEN /\ kb_last' = KbCall("key_pressed", -1, key_code, None)
         /\ UNCHANGED <<modifiers, suppress_chars, special_pending,
                     requested_modifiers, notKbVars>>
    ELSE /\ suppress_chars' = TRUE
         /\ kb_last' = KbCall("key_pressed", -1, key_code,
                          Some(input_event("NON_ASCII_KEYSTROKE_EVENT",
                                           VirtualKeyCode[key_code],
                                           to_emacs_modifiers(modifiers), top_frame)))
         /\ special_pending' = TRUE
         /\ UNCHANGED <<modifiers, requested_modifiers, notKbVars>>

\* KeyboardProcessor::key_released
KeyReleased ==
    /\ suppress_chars' = FALSE
    /\ kb_last' = KbCall("key_released", -1, "", None)
    /\ special_pending' = FALSE
    /\ UNCHANGED <<modifiers, requested_modifiers, notKbVars>>

\* KeyboardProcessor::change_modifiers
ChangeModifiers(m) ==
    /\ modifiers' = m
    /\ requested_modifiers' = m
    /\ kb_last' = KbCall("change_modifiers", -1, "", None)
    /\ UNCHANGED <<suppress_chars, special_pending, notKbVars>>

\* The window's event loop on a key going down: it hands the key to
\* KeyboardProcessor::key_pressed
PressKey(key_code) ==
    /\ key_code \notin keys_down
    /\ keys_down' = keys_down \cup {key_code}
    /\ IF IsNone(winit_keycode_emacs_key_name(key_code))
       THEN /\ kb_last' = KbCall("key_pressed", -1, key_code, None)
            /\ UNCHANGED <<suppress_chars, special_pending>>
       ELSE /\ suppress_chars' = TRUE
            /\ kb_last' = KbCall("key_pressed", -1, key_code,
                             Some(input_event("NON_ASCII_KEYSTROKE_EVENT",
                                              VirtualKeyCode[key_code],
                                              to_emacs_modifiers(modifiers), top_frame)))
            /\ special_pending' = TRUE
    /\ UNCHANGED <<modifiers, requested_modifiers, outputVars, colorVars,
                   lookupVars, textureVars>>

\* The window's event loop on a key going up: KeyboardProcessor::key_released
\* takes no key
ReleaseKey(key_code) ==
    /\ key_code \in keys_down
    /\ keys_down' = keys_down \ {key_code}
    /\ suppress_chars' = FALSE
    /\ kb_last' = KbCall("key_released", -1, key_code, None)
    /\ special_pending' = FALSE
    /\ UNCHANGED <<modifiers, requested_modifiers, outputVars, colorVars,
                   lookupVars, textureVars>>

(***************************************************************************)
(*                 texture.rs: the external texture table                  *)
(*                                                                         *)
(* A TextureTable maps a gl::GLuint (u32) to (FramebufferIntSize, bool).   *)
(* The manager holds it behind an Rc<RefCell<..>>; a table object lives in *)
(* the heap `tables` and an Rc is its index.  An ExternalImageId is a u64, *)
(* kept as its two 32-bit halves: the value is hi * 2^32 + lo.             *)
(***************************************************************************)
MaxTextureId == 2
MaxHandlers == 1

\* gl::GLuint values in use here
TextureIds == 1..MaxTextureId
TextureSizes == {[width |-> 4, height |-> 2], [width |-> 3, height |-> 5]}
ExternalImageId(hi, lo) == [hi |-> hi, lo |-> lo]
\* the high halves of the keys in use here: keys that fit in 32 bits, and
\* keys that do not
HighHalves == {0, 1}
ExternalImageIds == {ExternalImageId(hi, lo) : hi \in HighHalves, lo \in TextureIds}
NoKey == ExternalImageId(0, 0)

\* `x as u32` of a u64: the low 32 bits
as_u32(x) == x.lo
\* `x as u64` of a u32
as_u64(id) == ExternalImageId(0, id)

\* HashMap::new()
TextureTable_new == [id \in {} |-> None]
\* HashMap::insert
HashMap_insert(map, key, value) ==
    [k \in DOMAIN map \cup {key} |-> IF k = key THEN value ELSE map[k]]

\* the Rc the TextureResourceManager holds
manager_textures == 1

TexelRect_new(u0, v0, u1, v1) == [uv0 |-> <<u0, v0>>, uv1 |-> <<u1, v1>>]
NativeTexture(id) == [native_texture |-> id]
ExternalImage(uv, source) == [uv |-> uv, source |-> source]

\* struct ExternalHandler
ExternalHandler(texture, entries_at_creation) ==
    [texture |-> texture, entries_at_creation |-> entries_at_creation]

TexCall(op, handler, key, result) ==
    [op |-> op, handler |-> handler, key |-> key, result |-> result]

TexCanCall == tex_status = "running"

\* lock that ignores need_flip
lock_never_flipped(table, key) ==
    LET texture_id == key
        entry == HashMap_get(table, as_u32(texture_id))
    IN  IF IsNone(entry) THEN Panicked
        ELSE LET size == Unwrap(entry)[1]
             IN  Returned(ExternalImage(TexelRect_new(0, 0, size.width, size.height),
                                        NativeTexture(as_u32(texture_id))))

\* what ExternalHandler::lock returns, on the table its Rc points to
lock(table, key) ==
    LET texture_id == key
        entry == HashMap_get(table, as_u32(texture_id))
    IN  IF IsNone(entry) THEN Panicked
        ELSE LET size == Unwrap(entry)[1]
                 need_filp == Unwrap(entry)[2]
                 uv == IF need_filp
                       THEN TexelRect_new(0, size.height, size.width, 0)
                       ELSE TexelRect_new(0, 0, size.width, size.height)
             IN  Returned(ExternalImage(uv, NativeTexture(as_u32(texture_id))))

\* TextureResourceManager::insert
Insert(texture_id, size, need_flip) ==
    /\ TexCanCall
    /\ tables' = [tables EXCEPT ![manager_textures] =
                      HashMap_insert(@, texture_id, <<size, need_flip>>)]
    /\ latest_insert' = HashMap_insert(latest_insert, texture_id, <<size, need_flip>>)
    /\ tex_last' = TexCall("insert", 0, NoKey, Returned(None))
    /\ UNCHANGED <<handlers, gl_textures, tex_status, notTextureVars>>

\* TextureResourceManager::new_texture; gen_textures hands out a name the GL
\* context has not generated before, and the texture binding ends at 0
NewTexture(size, need_flip) ==
    /\ TexCanCall
    /\ \E texture_id \in TextureIds \ gl_textures :
          /\ gl_textures' = gl_textures \cup {texture_id}
          /\ tables' = [tables EXCEPT ![manager_textures] =
                            HashMap_insert(@, texture_id, <<size, need_flip>>)]
          /\ latest_insert' = HashMap_insert(latest_insert, texture_id,
                                             <<size, need_flip>>)
          /\ tex_last' = TexCall("new_texture", 0, NoKey, Returned(texture_id))
    /\ UNCHANGED <<handlers, tex_status, notTextureVars>>

\* a handler that takes a copy of the table instead of sharing it
NewHandlerSnapshot ==
    /\ TexCanCall
    /\ Len(handlers) < MaxHandlers
    /\ tables' = Append(tables, tables[manager_textures])
    /\ handlers' = Append(handlers,
                          ExternalHandler(Len(tables) + 1,
                                          Cardinality(DOMAIN tables[manager_textures])))
    /\ tex_last' = TexCall("new_external_image_handler", Len(handlers) + 1, NoKey,
                           Returned(None))
    /\ UNCHANGED <<gl_textures, latest_insert, tex_status, notTextureVars>>

\* TextureResourceManager::new_external_image_handler
NewExternalImageHandler ==
    /\ TexCanCall
    /\ Len(handlers) < MaxHandlers
    /\ handlers' = Append(handlers,
                          ExternalHandler(manager_textures,
                                          Cardinality(DOMAIN tables[manager_textures])))
    /\ tex_last' = TexCall("new_external_image_handler", Len(handlers) + 1, NoKey,
                           Returned(None))
    /\ UNCHANGED <<tables, gl_textures, latest_insert, tex_status, notTextureVars>>

\* ExternalHandler::lock, called by the renderer on handler h
Lock(h, key) ==
    /\ TexCanCall
    /\ h \in 1..Len(handlers)
    /\ LET result == lock(tables[handlers[h].texture], key)
       IN  /\ tex_last' = TexCall("lock", h, key, result)
           /\ tex_status' = IF result.status = "panicked" THEN "panicked" ELSE "running"
    /\ UNCHANGED <<tables, handlers, gl_textures, latest_insert, notTextureVars>>

\* ExternalHandler::unlock: it ignores the key and does nothing
Unlock(h, key) ==
    /\ TexCanCall
    /\ h \in 1..Len(handlers)
    /\ tex_last' = TexCall("unlock", h, NoKey, Returned(None))
    /\ UNCHANGED <<tables, handlers, gl_textures, latest_insert, tex_status,
                   notTextureVars>>

(***************************************************************************)
(*        font.rs: the font driver's draw; term.rs: draw_glyph_string      *)
(*                                                                         *)
(* A glyph_string is the host's record of a run of glyphs of one face on   *)
(* one frame; the frame's Output is the one of this model.  Positions and  *)
(* advances are f32 values; the ones used here are small integers, which   *)
(* f32 holds and adds exactly.                                             *)
(***************************************************************************)
MaxFontCalls == 3

GlyphTypes == {"CHAR_GLYPH", "IMAGE_GLYPH"}
\* the glyph codes of a run (char2b)
GlyphRuns == {<<2, 3, 1>>, <<3>>}
\* what RenderApi::get_glyph_dimensions knows of each glyph: its advance, or
\* nothing
GlyphDimensions ==
    [g \in {1, 2, 3} |-> CASE g = 1 -> Some([advance |-> 7])
                           [] g = 2 -> Some([advance |-> 9])
                           [] OTHER -> None]

\* struct font of the glyph string, as wr_font open fills it
a_font == [font_key |-> 1, pixel_size |-> 14, ascent |-> 11, height |-> 15]
\* the face of the glyph string: black on white
a_face == [foreground |-> <<0, 0, 0, 0>>, background |-> <<255, 255, 255, 0>>]

glyph_string(type, chars) ==
    [type |-> type, chars |-> chars, nchars |-> Len(chars),
     x |-> 4, y |-> 20, width |-> 8 * Len(chars), height |-> 12,
     font |-> a_font, face |-> a_face]

GlyphStrings == {glyph_string(type, chars) : type \in GlyphTypes, chars \in GlyphRuns}

\* i32 `/`: the quotient rounded towards zero
i32_div(a, b) == IF a >= 0 THEN a \div b ELSE -((-a) \div b)

\* GlyphStringRef::get_chars: the nchars glyph codes of the string
get_chars(s) == s.chars

\* Output::add_font_instance: the key of the instance of the font at that
\* size; it leaves the display list alone
add_font_instance(font_key, pixel_size) ==
    [font_key |-> font_key, size |-> pixel_size]

\* RenderApi::get_glyph_dimensions
get_glyph_dimensions(font_instance_key, glyph_indices) ==
    [i \in 1..Len(glyph_indices) |-> GlyphDimensions[glyph_indices[i]]]

\* (x, y).by(w, h)
by(x, y, w, h) == [origin |-> <<x, y>>, size |-> <<w, h>>]
CommonItemProperties_new(clip_rect, space_and_clip) ==
    [clip_rect |-> clip_rect, space_and_clip |-> space_and_clip]
\* SpaceAndClipInfo::root_scroll(pipeline_id)
root_scroll(pipeline_id) == [root_scroll |-> pipeline_id]

\* the glyph instances of a loop that places every glyph one advance after x
RECURSIVE GlyphInstancesFromX(_, _, _, _, _)
GlyphInstancesFromX(n, glyph_indices, glyph_dimensions, x, y) ==
    IF n = 0 THEN <<>>
    ELSE LET glyph_instances ==
                 GlyphInstancesFromX(n - 1, glyph_indices, glyph_dimensions, x, y)
             i == n - 1
             previous_char_width ==
                 IF i = 0 THEN 0
                 ELSE IF IsSome(glyph_dimensions[i])
                      THEN Unwrap(glyph_dimensions[i]).advance
                      ELSE 0
             start == x + previous_char_width
         IN  Append(glyph_instances, [index |-> glyph_indices[n], point |-> <<start, y>>])

\* the glyph_instances after the first n rounds of the loop of draw; the
\* round for glyph i (from 0) reads glyph_dimensions[i - 1] and
\* glyph_instances[i - 1], which are at i in a sequence indexed from 1
RECURSIVE GlyphInstances(_, _, _, _, _)
GlyphInstances(n, glyph_indices, glyph_dimensions, x, y) ==
    IF n = 0 THEN <<>>
    ELSE LET glyph_instances ==
                 GlyphInstances(n - 1, glyph_indices, glyph_dimensions, x, y)
             i == n - 1
             previous_char_width ==
                 IF i = 0 THEN 0
                 ELSE IF IsSome(glyph_dimensions[i])
                      THEN Unwrap(glyph_dimensions[i]).advance
                      ELSE 0
             previous_char_start ==
                 IF i = 0 THEN x ELSE glyph_instances[i].point[1]
             start == previous_char_start + previous_char_width
         IN  Append(glyph_instances, [index |-> glyph_indices[n], point |-> <<start, y>>])

\* what the closure of draw pushes to the builder
draw_closure(s, from, to, x, y, with_background, font_instance_key, space_and_clip) ==
    LET glyph_indices == SubSeq(get_chars(s), from + 1, to)
        glyph_dimensions == get_glyph_dimensions(font_instance_key, glyph_indices)
        glyph_instances ==
            GlyphInstances(Len(glyph_indices), glyph_indices, glyph_dimensions, x, y)
        text_bounds == by(s.x, s.y, s.width, s.height)
        layout == CommonItemProperties_new(text_bounds, space_and_clip)
        background ==
            IF with_background
            THEN <<[item |-> "rect", layout |-> layout,
                    color |-> pixel_to_color(s.face.background)]>>
            ELSE <<>>
    IN  background \o
        <<[item |-> "text", layout |-> layout, clip_rect |-> layout.clip_rect,
           glyphs |-> glyph_instances, font_instance_key |-> font_instance_key,
           color |-> pixel_to_color(s.face.foreground)]>>

\* the font of the glyph strings has been opened: open got its font key
\* from Output::add_font
FontOpened == a_font.font_key < next_font_key

FontCanCall ==
    /\ output_status = "running"
    /\ Len(history) < MaxFontCalls
    /\ FontOpened

\* How a call of the font driver's open ends:
\*   "ok"                    it returns the font object;
\*   "error"                 the entity has no :postscript-name and open
\*                           signals a Lisp error;
\*   "panic_before_add_font" the name is no string or the system has no font
\*                           of that name: an unwrap fails before add_font;
\*   "panic_after_add_font"  the font object is no font, the font does not
\*                           load or has no glyph 33: an unwrap fails after
\*                           add_font
OpenOutcomes == {"ok", "error", "panic_before_add_font", "panic_after_add_font"}

\* the font driver's open, as far as the Output goes: unless it fails before,
\* it gets the font key of the font from Output::add_font
Open(font_handle, outcome) ==
    /\ CanCall
    /\ Len(history) < MaxFontCalls
    /\ IF outcome \in {"ok", "panic_after_add_font"}
       THEN LET font_key == next_font_key
                txn == IF font_handle = "Path"
                       THEN <<[msg |-> "add_native_font", key |-> font_key]>>
                       ELSE <<[msg |-> "add_raw_font", key |-> font_key]>>
            IN  /\ calls' = Append(calls, [call |-> "send_transaction",
                                            document |-> document_id, txn |-> txn])
                /\ next_font_key' = next_font_key + 1
       ELSE UNCHANGED <<calls, next_font_key>>
    /\ output_status' = IF outcome \in {"panic_before_add_font", "panic_after_add_font"}
                        THEN "panicked"
                        ELSE output_status
    /\ history' = Append(history, [op |-> "open", handle |-> font_handle,
                                   outcome |-> outcome])
    /\ UNCHANGED <<display_list_builder, current_txn, window, notOutputVars>>

\* flush_display of the redisplay interface: Output::flush
FlushDisplay(render_ok) ==
    /\ Len(history) < MaxFontCalls
    /\ Flush(render_ok)

\* the font driver's draw, with from <= to <= nchars as the host calls it:
\* Output::display with the closure above; made is the record of the calls
\* made so far
draw(s, from, to, x, y, with_background, made) ==
    LET font_key == s.font.font_key
        pixel_size == s.font.pixel_size
        font_instance_key == add_font_instance(font_key, pixel_size)
        f == draw_closure(s, from, to, x, y, with_background, font_instance_key,
                          root_scroll(PipelineId))
        opened_builder ==
            IF IsNone(display_list_builder)
            THEN Some(DisplayListBuilder_new(PipelineId, get_size(window).value.layout_size))
            ELSE display_list_builder
        opened_txn ==
            IF IsNone(display_list_builder)
            THEN Some(Transaction_new)
            ELSE current_txn
    IN  IF IsNone(display_list_builder) /\ get_size(window).status = "panicked"
        THEN get_size_panics("draw", made)
        ELSE /\ IF IsSome(opened_builder) /\ IsSome(opened_txn)
                THEN /\ display_list_builder' =
                            Some([Unwrap(opened_builder) EXCEPT !.items = @ \o f])
                     /\ current_txn' = opened_txn
                ELSE /\ display_list_builder' = opened_builder
                     /\ current_txn' = opened_txn
             /\ history' = Append(made, [op |-> "draw", s |-> s, from |-> from,
                                         to |-> to, x |-> x, y |-> y,
                                         with_background |-> with_background,
                                         ret |-> 1])
             /\ UNCHANGED <<window, next_font_key, calls, output_status, notOutputVars>>

\* the host calls the draw of the font driver
Draw(s, from, to, x, y, with_background) ==
    /\ FontCanCall
    /\ draw(s, from, to, x, y, with_background, history)

\* draw_char_glyph_string
draw_char_glyph_string(s, made) ==
    LET font == s.font
        x_start == s.x
        y_start == s.y + (font.ascent + i32_div(s.height - font.height, 2))
    IN  draw(s, 0, s.nchars, x_start, y_start, TRUE, made)

\* the host calls draw_glyph_string of the redisplay interface
DrawGlyphString(s) ==
    /\ FontCanCall
    /\ LET type_ == s.type
           made == Append(history, [op |-> "draw_glyph_string", s |-> s])
       IN  IF type_ = "CHAR_GLYPH"
           THEN draw_char_glyph_string(s, made)
           ELSE /\ history' = made
                /\ UNCHANGED <<display_list_builder, current_txn, window, next_font_key,
                               calls, output_status, notOutputVars>>

(***************************************************************************)
(*                          The specifications                             *)
(*                                                                         *)
(* Each starts from Output::new (display_list_builder and current_txn      *)
(* None), KeyboardProcessor::new (no modifier, suppress_chars false) and   *)
(* no color function called, and takes the steps of one component.         *)
(***************************************************************************)
a_window == [inner_size |-> Some(<<80, 60>>), hidpi_factor |-> 1]

OutputInit ==
    /\ display_list_builder = None
    /\ current_txn = None
    /\ window \in [inner_size : {Some(size) : size \in WindowSizes},
                    hidpi_factor : HidpiFactors]
    /\ next_font_key = 1
    /\ calls = create_webrender_window(window)
    /\ output_status = "running"
    /\ history = <<>>
    /\ rgb8 = <<0, 0, 0>>
    /\ color_in = ColorOf(rgb8)
    /\ pixel = None
    /\ color_out = None
    /\ color_string = <<>>
    /\ lookup_result = NotCalled
    /\ modifiers = ModifiersState_empty
    /\ suppress_chars = FALSE
    /\ kb_last = KbCall("new", -1, "", None)
    /\ special_pending = FALSE
    /\ requested_modifiers = ModifiersState_empty
    /\ keys_down = {}
    /\ tables = <<TextureTable_new>>
    /\ handlers = <<>>
    /\ gl_textures = {}
    /\ latest_insert = TextureTable_new
    /\ tex_last = TexCall("new", 0, NoKey, Returned(None))
    /\ tex_status = "running"

OutputNext ==
    \/ \E f \in DrawClosures : Display(f)
    \/ \E render_ok \in BOOLEAN : Flush(render_ok)
    \/ \E h \in FontHandles : AddFont(h)
    \/ \E size \in WindowSizes : Resize(size)
    \/ CloseWindow
    \/ ShowWindow
    \/ HideWindow

SpecOutput == OutputInit /\ [][OutputNext]_vars

\* the caller's color: (r/255, g/255, b/255, 1.0) for an 8-bit (r, g, b)
ColorInit ==
    /\ display_list_builder = None
    /\ current_txn = None
    /\ window = a_window
    /\ next_font_key = 1
    /\ calls = create_webrender_window(window)
    /\ output_status = "running"
    /\ history = <<>>
    /\ rgb8 \in ChannelTriples
    /\ color_in = ColorOf(rgb8)
    /\ pixel = None
    /\ color_out = None
    /\ color_string = <<>>
    /\ lookup_result = NotCalled
    /\ modifiers = ModifiersState_empty
    /\ suppress_chars = FALSE
    /\ kb_last = KbCall("new", -1, "", None)
    /\ special_pending = FALSE
    /\ requested_modifiers = ModifiersState_empty
    /\ keys_down = {}
    /\ tables = <<TextureTable_new>>
    /\ handlers = <<>>
    /\ gl_textures = {}
    /\ latest_insert = TextureTable_new
    /\ tex_last = TexCall("new", 0, NoKey, Returned(None))
    /\ tex_status = "running"

ColorNext ==
    \/ ColorToPixel
    \/ PixelToColor

SpecColor == ColorInit /\ [][ColorNext]_vars

LookupInit ==
    /\ display_list_builder = None
    /\ current_txn = None
    /\ window = a_window
    /\ next_font_key = 1
    /\ calls = create_webrender_window(window)
    /\ output_status = "running"
    /\ history = <<>>
    /\ rgb8 = <<0, 0, 0>>
    /\ color_in = ColorOf(rgb8)
    /\ pixel = None
    /\ color_out = None
    /\ color_string \in HexTokens \cup NameTokens
    /\ lookup_result = NotCalled
    /\ modifiers = ModifiersState_empty
    /\ suppress_chars = FALSE
    /\ kb_last = KbCall("new", -1, "", None)
    /\ special_pending = FALSE
    /\ requested_modifiers = ModifiersState_empty
    /\ keys_down = {}
    /\ tables = <<TextureTable_new>>
    /\ handlers = <<>>
    /\ gl_textures = {}
    /\ latest_insert = TextureTable_new
    /\ tex_last = TexCall("new", 0, NoKey, Returned(None))
    /\ tex_status = "running"

LookupNext == Lookup

SpecLookup == LookupInit /\ [][LookupNext]_vars

\* KeyboardProcessor::new
KbInit ==
    /\ display_list_builder = None
    /\ current_txn = None
    /\ window = a_window
    /\ next_font_key = 1
    /\ calls = create_webrender_window(window)
    /\ output_status = "running"
    /\ history = <<>>
    /\ rgb8 = <<0, 0, 0>>
    /\ color_in = ColorOf(rgb8)
    /\ pixel = None
    /\ color_out = None
    /\ color_string = <<>>
    /\ lookup_result = NotCalled
    /\ modifiers = ModifiersState_empty
    /\ suppress_chars = FALSE
    /\ kb_last = KbCall("new", -1, "", None)
    /\ special_pending = FALSE
    /\ requested_modifiers = ModifiersState_empty
    /\ keys_down = {}
    /\ tables = <<TextureTable_new>>
    /\ handlers = <<>>
    /\ gl_textures = {}
    /\ latest_insert = TextureTable_new
    /\ tex_last = TexCall("new", 0, NoKey, Returned(None))
    /\ tex_status = "running"

KbNext ==
    \/ \E c \in CharCodes : ReceiveChar(c)
    \/ \E k \in KeyCodes : KeyPressed(k)
    \/ KeyReleased
    \/ \E m \in ModifiersStates : ChangeModifiers(m)

SpecKeyboard == KbInit /\ [][KbNext]_vars

\* KeyboardProcessor::new, no key held
KeysInit ==
    /\ display_list_builder = None
    /\ current_txn = None
    /\ window = a_window
    /\ next_font_key = 1
    /\ calls = create_webrender_window(window)
    /\ output_status = "running"
    /\ history = <<>>
    /\ rgb8 = <<0, 0, 0>>
    /\ color_in = ColorOf(rgb8)
    /\ pixel = None
    /\ color_out = None
    /\ color_string = <<>>
    /\ lookup_result = NotCalled
    /\ modifiers = ModifiersState_empty
    /\ suppress_chars = FALSE
    /\ kb_last = KbCall("new", -1, "", None)
    /\ special_pending = FALSE
    /\ requested_modifiers = ModifiersState_empty
    /\ keys_down = {}
    /\ tables = <<TextureTable_new>>
    /\ handlers = <<>>
    /\ gl_textures = {}
    /\ latest_insert = TextureTable_new
    /\ tex_last = TexCall("new", 0, NoKey, Returned(None))
    /\ tex_status = "running"

KeysNext ==
    \/ \E k \in KeyCodes : PressKey(k)
    \/ \E k \in KeyCodes : ReleaseKey(k)
    \/ \E c \in CharCodes : ReceiveChar(c)

SpecKeys == KeysInit /\ [][KeysNext]_vars

\* TextureResourceManager::new
TextureInit ==
    /\ display_list_builder = None
    /\ current_txn = None
    /\ window = a_window
    /\ next_font_key = 1
    /\ calls = create_webrender_window(window)
    /\ output_status = "running"
    /\ history = <<>>
    /\ rgb8 = <<0, 0, 0>>
    /\ color_in = ColorOf(rgb8)
    /\ pixel = None
    /\ color_out = None
    /\ color_string = <<>>
    /\ lookup_result = NotCalled
    /\ modifiers = ModifiersState_empty
    /\ suppress_chars = FALSE
    /\ kb_last = KbCall("new", -1, "", None)
    /\ special_pending = FALSE
    /\ requested_modifiers = ModifiersState_empty
    /\ keys_down = {}
    /\ tables = <<TextureTable_new>>
    /\ handlers = <<>>
    /\ gl_textures = {}
    /\ latest_insert = TextureTable_new
    /\ tex_last = TexCall("new", 0, NoKey, Returned(None))
    /\ tex_status = "running"

TextureNext ==
    \/ \E id \in TextureIds, size \in TextureSizes, need_flip \in BOOLEAN :
          Insert(id, size, need_flip)
    \/ \E size \in TextureSizes, need_flip \in BOOLEAN : NewTexture(size, need_flip)
    \/ NewExternalImageHandler
    \/ \E h \in 1..MaxHandlers, key \in ExternalImageIds : Lock(h, key)
    \/ \E h \in 1..MaxHandlers, key \in ExternalImageIds : Unlock(h, key)

SpecTexture == TextureInit /\ [][TextureNext]_vars

\* Output::new of the frame's Output
FontInit ==
    /\ display_list_builder = None
    /\ current_txn = None
    /\ window = a_window
    /\ next_font_key = 1
    /\ calls = create_webrender_window(window)
    /\ output_status = "running"
    /\ history = <<>>
    /\ rgb8 = <<0, 0, 0>>
    /\ color_in = ColorOf(rgb8)
    /\ pixel = None
    /\ color_out = None
    /\ color_string = <<>>
    /\ lookup_result = NotCalled
    /\ modifiers = ModifiersState_empty
    /\ suppress_chars = FALSE
    /\ kb_last = KbCall("new", -1, "", None)
    /\ special_pending = FALSE
    /\ requested_modifiers = ModifiersState_empty
    /\ keys_down = {}
    /\ tables = <<TextureTable_new>>
    /\ handlers = <<>>
    /\ gl_textures = {}
    /\ latest_insert = TextureTable_new
    /\ tex_last = TexCall("new", 0, NoKey, Returned(None))
    /\ tex_status = "running"

FontNext ==
    \/ \E s \in GlyphStrings, with_background \in BOOLEAN :
          \E to \in 0..s.nchars, x \in {10} :
              \E from \in 0..to : Draw(s, from, to, x, s.y, with_background)
    \/ \E s \in GlyphStrings : DrawGlyphString(s)
    \/ \E render_ok \in BOOLEAN : FlushDisplay(render_ok)
    \/ \E h \in FontHandles, outcome \in OpenOutcomes : Open(h, outcome)

SpecFont == FontInit /\ [][FontNext]_vars

(***************************************************************************)
(*                        Properties of the Output                         *)
(***************************************************************************)
Last(seq) == seq[Len(seq)]

\* The display list is closed after the calls h: every display call was
\* followed by a flush
ClosedAfter(h) ==
    \A i \in 1..Len(h) :
        h[i].op = "display" => \E j \in (i + 1)..Len(h) : h[j].op = "flush"

\* The draw operations of the display calls made since the last flush of h
RECURSIVE DrawsSinceFlush(_)
DrawsSinceFlush(h) ==
    IF h = <<>> \/ Last(h).op = "flush" THEN <<>>
    ELSE LET before == DrawsSinceFlush(SubSeq(h, 1, Len(h) - 1))
         IN  IF Last(h).op = "display" THEN before \o Last(h).f ELSE before

\* Whether a display call was made since the last flush of h
RECURSIVE DisplayedSinceFlush(_)
DisplayedSinceFlush(h) ==
    IF h = <<>> \/ Last(h).op = "flush" THEN FALSE
    ELSE Last(h).op = "display" \/ DisplayedSinceFlush(SubSeq(h, 1, Len(h) - 1))

\* The display lists that the calls h should have submitted, one for each
\* flush that had a display call before it, in order
RECURSIVE FramesOf(_)
FramesOf(h) ==
    IF h = <<>> THEN <<>>
    ELSE LET before == SubSeq(h, 1, Len(h) - 1)
         IN  IF Last(h).op = "flush" /\ DisplayedSinceFlush(before)
             THEN Append(FramesOf(before), DrawsSinceFlush(before))
             ELSE FramesOf(before)

IsDisplayListTxn(c) ==
    /\ c.call = "send_transaction"
    /\ \E i \in 1..Len(c.txn) : c.txn[i].msg = "set_display_list"

\* The display-list transactions submitted so far
DisplayListTxns == SelectSeq(calls, IsDisplayListTxn)

\* The items of the display list a transaction sets, all its messages taken together
RECURSIVE ItemsOfTxn(_)
ItemsOfTxn(txn) ==
    IF txn = <<>> THEN <<>>
    ELSE IF Head(txn).msg = "set_display_list"
         THEN Head(txn).items \o ItemsOfTxn(Tail(txn))
         ELSE ItemsOfTxn(Tail(txn))

NumDisplayLists(txn) == Len(SelectSeq(txn, LAMBDA m : m.msg = "set_display_list"))

FlushCalls == Len(SelectSeq(history, LAMBDA c : c.op = "flush"))

\* C1: in every state reachable by display, flush and add_font calls from
\* Output::new, display_list_builder is present if and only if current_txn
\* is present.
C1_PairOpenTogether == IsSome(display_list_builder) <=> IsSome(current_txn)

\* a pair is open again after an earlier flush took one out
C1_Witness ==
    /\ IsSome(display_list_builder)
    /\ IsSome(current_txn)
    /\ \E i \in 1..Len(history) : history[i].op = "flush"
    /\ \E i \in 1..Len(history) : history[i].op = "add_font"

\* a step that is one call of flush, returned or panicked
FlushStep ==
    /\ Len(history') = Len(history) + 1
    /\ \/ Last(history').op = "flush"
       \/ Last(history').op = "panic" /\ Last(history').call = "flush"

\* C2: a flush on an Output whose display list is closed does not panic,
\* makes no call to the render api, the renderer or the window (no
\* transaction, no render, no buffer swap) and leaves both slots empty.
\* Violated: flush reads the size of the window before it looks at the
\* slots, and panics when the window has none.
C2_ClosedFlushIsNoOp ==
    [][ (FlushStep /\ ClosedAfter(history))
          => /\ calls' = calls
             /\ output_status' = "running"
             /\ IsNone(display_list_builder')
             /\ IsNone(current_txn') ]_vars

\* C3: the display calls made between two flushes share one
\* builder/transaction pair: the open builder holds the draw operations of
\* all of them in call order, each flush that follows at least one display
\* call submits exactly one transaction, with one display list holding those
\* operations, and the display-list transactions never outnumber the flushes.
C3_OneTransactionPerFrame ==
    /\ IsSome(display_list_builder) <=> DisplayedSinceFlush(history)
    /\ IsSome(display_list_builder)
          => Unwrap(display_list_builder).items = DrawsSinceFlush(history)
    /\ Len(DisplayListTxns) = Len(FramesOf(history))
    /\ \A i \in 1..Len(DisplayListTxns) :
          /\ NumDisplayLists(DisplayListTxns[i].txn) = 1
          /\ ItemsOfTxn(DisplayListTxns[i].txn) = FramesOf(history)[i]
    /\ Len(DisplayListTxns) <= FlushCalls

\* two display calls, then the flush that submits both in one transaction
C3_Witness ==
    /\ Len(history) >= 3
    /\ history[1].op = "display"
    /\ history[2].op = "display"
    /\ history[3].op = "flush"
    /\ Len(DisplayListTxns) = 1
    /\ ItemsOfTxn(DisplayListTxns[1].txn) = history[1].f \o history[2].f

(***************************************************************************)
(*                    Properties of the color functions                    *)
(***************************************************************************)

\* C4: for every 8-bit (r, g, b), color_to_pixel of (r/255, g/255, b/255)
\* packs r into bits 0-15, g into bits 16-31 and b into bits 32-47, and
\* pixel_to_color of that pixel gives back the same red, green and blue
\* channels with alpha 1.0.
C4_ColorRoundTrip ==
    /\ IsSome(pixel) => Unwrap(pixel) = <<rgb8[1], rgb8[2], rgb8[3], 0>>
    /\ IsSome(color_out) =>
          /\ Unwrap(color_out).r = color_in.r
          /\ Unwrap(color_out).g = color_in.g
          /\ Unwrap(color_out).b = color_in.b
          /\ Unwrap(color_out).a = F32One

C4_Witness ==
    /\ rgb8 = <<255, 128, 1>>
    /\ IsSome(color_out)
    /\ Unwrap(color_out) = color_in

\* The value of a hexadecimal digit
HexDigitValue ==
    [c \in {"0", "1", "2", "3", "4", "5", "6", "7", "8", "9",
            "a", "b", "c", "d", "e", "f", "A", "B", "C", "D", "E", "F"} |->
        CASE c = "0" -> 0 [] c = "1" -> 1 [] c = "2" -> 2 [] c = "3" -> 3
          [] c = "4" -> 4 [] c = "5" -> 5 [] c = "6" -> 6 [] c = "7" -> 7
          [] c = "8" -> 8 [] c = "9" -> 9
          [] c \in {"a", "A"} -> 10 [] c \in {"b", "B"} -> 11
          [] c \in {"c", "C"} -> 12 [] c \in {"d", "D"} -> 13
          [] c \in {"e", "E"} -> 14 [] c \in {"f", "F"} -> 15]

\* '#' followed by exactly six hexadecimal digits
WellFormedHex(s) ==
    /\ Len(s) = 7
    /\ s[1] = "#"
    /\ \A i \in 2..7 : s[i] \in DOMAIN HexDigitValue

HexByteValue(s, i) == 16 * HexDigitValue[s[i]] + HexDigitValue[s[i + 1]]

\* C5: for every token #RRGGBB, lookup_color_by_name_or_hex returns
\* Some((RR, GG, BB)), each component the value of its two hex digits.
C5_HexParsing ==
    (lookup_result.status # "not called" /\ WellFormedHex(color_string))
        => lookup_result = Returned(Some(<<HexByteValue(color_string, 2),
                                           HexByteValue(color_string, 4),
                                           HexByteValue(color_string, 6)>>))

C5_Witness ==
    /\ color_string = <<"#", "F", "F", "0", "0", "a", "F">>
    /\ lookup_result = Returned(Some(<<255, 0, 175>>))

\* C6: for every token that starts with '#' and is not '#' followed by
\* exactly six hexadecimal digits, lookup_color_by_name_or_hex panics.
C6_MalformedHexPanics ==
    (/\ lookup_result.status # "not called"
     /\ starts_with(color_string, "#")
     /\ ~WellFormedHex(color_string))
        => lookup_result = Panicked

\* Two characters that are the same but for letter case
SameLetter(c1, c2) ==
    \/ c1 = c2
    \/ \E i \in 1..Len(UpperChars) : {c1, c2} = {UpperChars[i], LowerChars[i]}

SameUpToCase(s, t) ==
    /\ Len(s) = Len(t)
    /\ \A i \in 1..Len(s) : SameLetter(s[i], t[i])

\* C7: for every token that does not start with '#', every respelling of it
\* that differs only in letter case resolves to the same result.
C7_NameLookupIgnoresCase ==
    (lookup_result.status # "not called" /\ ~starts_with(color_string, "#"))
        => \A t \in NameTokens :
              SameUpToCase(t, color_string)
                  => lookup_color_by_name_or_hex(t) = lookup_result

C7_Witness ==
    /\ color_string = <<"R", "e", "D">>
    /\ lookup_result = Returned(Some(<<255, 0, 0>>))

(***************************************************************************)
(*                 Properties of the keyboard processor                    *)
(***************************************************************************)
to_ascii_lowercase(n) == IF n \in 65..90 THEN n + 32 ELSE n
IsLowerCaseLetter(n) == n \in 97..122

\* The key codes that have an emacs key name
MappedKeys == {"Escape", "Back", "Return"}

ControlCharReceived ==
    /\ kb_last.op = "receive_char"
    /\ kb_last.char < 32
    /\ IsSome(kb_last.result)

\* C8 as stated: every code c below 32 gives the lower-cased c + 64, and
\* that is a lower-case letter for every c from 0 to 31.
C8_ControlGivesLetter ==
    ControlCharReceived =>
        /\ Unwrap(kb_last.result).code = to_ascii_lowercase(kb_last.char + 64)
        /\ IsLowerCaseLetter(Unwrap(kb_last.result).code)

\* C8, amended: every code c below 32 gives the lower-cased c + 64; that is
\* the lower-case letter 96 + c for c from 1 to 26 (1 gives 'a'), and the
\* unchanged character c + 64, which is no letter, for c = 0 and c from 27
\* to 31.
C8_ControlRemap ==
    ControlCharReceived =>
        /\ Unwrap(kb_last.result).code = to_ascii_lowercase(kb_last.char + 64)
        /\ kb_last.char \in 1..26 =>
              /\ IsLowerCaseLetter(Unwrap(kb_last.result).code)
              /\ Unwrap(kb_last.result).code = 96 + kb_last.char
        /\ kb_last.char \notin 1..26 =>
              /\ ~IsLowerCaseLetter(Unwrap(kb_last.result).code)
              /\ Unwrap(kb_last.result).code = 64 + kb_last.char

C8_Witness ==
    /\ kb_last.op = "receive_char"
    /\ kb_last.char = 1
    /\ IsSome(kb_last.result)
    /\ Unwrap(kb_last.result).code = 97

\* C9: receive_char returns no event from a key_pressed that returned an
\* event until the next key_released, and an ASCII keystroke event initially
\* and after key_released.
C9_SpecialKeySuppressesChars ==
    kb_last.op = "receive_char" =>
        IF special_pending
        THEN IsNone(kb_last.result)
        ELSE /\ IsSome(kb_last.result)
             /\ Unwrap(kb_last.result).kind = "ASCII_KEYSTROKE_EVENT"

C9_Witness ==
    /\ kb_last.op = "receive_char"
    /\ special_pending
    /\ IsNone(kb_last.result)

\* C10: key_pressed returns a non-ASCII keystroke event, whose code is the
\* virtual key code, exactly for the key codes with a mapped name; for every
\* other key code it returns nothing and leaves suppress_chars and the
\* modifier state as they were.
C10_KeyPressedMapping ==
    [][ kb_last'.op = "key_pressed" =>
          /\ IsSome(kb_last'.result) <=> kb_last'.key \in MappedKeys
          /\ IsSome(kb_last'.result) =>
                /\ Unwrap(kb_last'.result).kind = "NON_ASCII_KEYSTROKE_EVENT"
                /\ Unwrap(kb_last'.result).code = VirtualKeyCode[kb_last'.key]
          /\ kb_last'.key \notin MappedKeys =>
                /\ suppress_chars' = suppress_chars
                /\ modifiers' = modifiers ]_vars

\* an unmapped key was pressed while characters were delivered, and they
\* still are
C10_Witness ==
    /\ kb_last.op = "key_pressed"
    /\ kb_last.key = "A"
    /\ IsNone(kb_last.result)
    /\ ~suppress_chars
    /\ modifiers = {"ctrl"}

(***************************************************************************)
(*              Properties of the keyboard processor, continued            *)
(***************************************************************************)
\* bit is a power of two: is it set in mask?
HasBit(mask, bit) == (mask \div bit) % 2 = 1

EventReturned ==
    /\ kb_last.op \in {"receive_char", "key_pressed"}
    /\ IsSome(kb_last.result)

\* C11: the stored modifier state is the argument of the most recent
\* change_modifiers call (empty if there was none), whatever key_pressed,
\* key_released and receive_char calls came after it, and every event
\* returned by receive_char or key_pressed carries its translation: the meta
\* bit iff alt, the shift bit iff shift, the ctrl bit iff ctrl, the super bit
\* iff logo, and no other bit.
C11_EventModifiers ==
    /\ modifiers = requested_modifiers
    /\ EventReturned =>
          LET mask == Unwrap(kb_last.result).modifiers
          IN  /\ mask >= 0
              /\ HasBit(mask, meta_modifier) <=> "alt" \in requested_modifiers
              /\ HasBit(mask, shift_modifier) <=> "shift" \in requested_modifiers
              /\ HasBit(mask, ctrl_modifier) <=> "ctrl" \in requested_modifiers
              /\ HasBit(mask, super_modifier) <=> "logo" \in requested_modifiers
              /\ \A k \in 0..30 :
                    HasBit(mask, Pow2(k)) =>
                        Pow2(k) \in {meta_modifier, shift_modifier,
                                     ctrl_modifier, super_modifier}

\* a character typed with shift and logo down, after a key release
C11_Witness ==
    /\ kb_last.op = "receive_char"
    /\ IsSome(kb_last.result)
    /\ requested_modifiers = {"shift", "logo"}
    /\ Unwrap(kb_last.result).modifiers = shift_modifier + super_modifier

\* C17: suppress_chars is set exactly while at least one mapped special key
\* is held down, in any interleaving of presses and releases of several keys.
C17_SuppressWhileSpecialHeld ==
    suppress_chars <=> (keys_down \cap MappedKeys # {})

\* C20: for every received character with a code point of 32 or more, also
\* above 255, the code of the event receive_char produces is the code point.
C20_CodePointUnchanged ==
    (/\ kb_last.op = "receive_char"
     /\ IsSome(kb_last.result)
     /\ kb_last.char >= 32) =>
        Unwrap(kb_last.result).code = kb_last.char

(***************************************************************************)
(*                     Properties of the texture table                     *)
(***************************************************************************)
LockReturned == tex_last.op = "lock" /\ tex_last.result.status = "returned"
LockPanicked == tex_last.op = "lock" /\ tex_last.result.status = "panicked"

\* the ids inserted so far, by insert or new_texture
InsertedIds == DOMAIN latest_insert

\* the 64-bit value of the key is an inserted 32-bit id
KeyWasInserted(key) == key.hi = 0 /\ key.lo \in InsertedIds

\* C12: a lock with a key whose id was never inserted, by insert or by
\* new_texture, panics: it never returns an image descriptor.
C12_UnregisteredLockPanics ==
    (tex_last.op = "lock" /\ ~KeyWasInserted(tex_last.key)) => LockPanicked

\* C13: a lock of a registered id returns a native-texture descriptor for
\* that id with the UV rectangle (0, h, w, 0) if the flip flag of the latest
\* insert of the id is set and (0, 0, w, h) otherwise, (w, h) being the size
\* of that latest insert.
C13_LockDescriptor ==
    (tex_last.op = "lock" /\ KeyWasInserted(tex_last.key)) =>
        LET id == tex_last.key.lo
            w == latest_insert[id][1].width
            h == latest_insert[id][1].height
            f == latest_insert[id][2]
            image == tex_last.result.value
        IN  /\ tex_last.result.status = "returned"
            /\ image.source = [native_texture |-> id]
            /\ image.uv = IF f THEN [uv0 |-> <<0, h>>, uv1 |-> <<w, 0>>]
                               ELSE [uv0 |-> <<0, 0>>, uv1 |-> <<w, h>>]

\* a flipped texture that new_texture created and a later insert resized
C13_Witness ==
    /\ LockReturned
    /\ tex_last.key = [hi |-> 0, lo |-> 1]
    /\ 1 \in gl_textures
    /\ latest_insert[1] = <<[width |-> 3, height |-> 5], TRUE>>
    /\ tex_last.result.value.uv = [uv0 |-> <<0, 5>>, uv1 |-> <<3, 0>>]

\* C16: no step removes an entry of the manager's table and lock and unlock
\* leave every table as it was; after every step, each registered id can be
\* locked through each handler, the ones created before its registration
\* included, and the id new_texture just returned is in the table.
C16_EntriesStay ==
    [][ /\ DOMAIN tables[manager_textures] \subseteq DOMAIN tables'[manager_textures]
        /\ tex_last'.op \in {"lock", "unlock"} => tables' = tables
        /\ \A h \in 1..Len(handlers'), id \in DOMAIN latest_insert' :
              lock(tables'[handlers'[h].texture], as_u64(id)).status = "returned"
        /\ (tex_last'.op = "lock" /\ KeyWasInserted(tex_last'.key)) =>
              tex_last'.result.status = "returned"
        /\ tex_last'.op = "new_texture" =>
              tex_last'.result.value \in DOMAIN tables'[manager_textures] ]_vars

\* a lock succeeded through a handler created when the table was empty:
\* before the id was registered
C16_Witness ==
    /\ LockReturned
    /\ tex_last.key.hi = 0
    /\ handlers[tex_last.handler].entries_at_creation = 0

\* C19: a key above 2^32 - 1 is not resolved to the entry of the registered
\* 32-bit id that equals its low 32 bits.
C19_FullKeyDistinguished ==
    ~(/\ LockReturned
      /\ tex_last.key.hi > 0
      /\ tex_last.key.lo \in InsertedIds
      /\ tex_last.result.value.source = [native_texture |-> tex_last.key.lo])

(***************************************************************************)
(*                  Properties of the Output, continued                    *)
(***************************************************************************)
\* The steps that the library calls cs amount to, in order: a sent
\* transaction counts for each of its messages and then for the sending
RECURSIVE StepsOf(_)
StepsOf(cs) ==
    IF Len(cs) = 0 THEN <<>>
    ELSE LET c == Head(cs)
             steps == IF c.call = "send_transaction"
                      THEN [i \in 1..Len(c.txn) |-> c.txn[i].msg]
                               \o <<"send_transaction">>
                      ELSE <<c.call>>
         IN  steps \o StepsOf(Tail(cs))

FlushSteps ==
    <<"set_display_list", "generate_frame", "send_transaction",
      "flush_scene_builder", "update", "render", "swap_buffers">>

IsFlushStep(step) == \E i \in 1..Len(FlushSteps) : FlushSteps[i] = step

\* C15: a flush of an open display list makes these steps, in this order and
\* each once: set_display_list with the frame epoch, generate_frame,
\* send_transaction, flush_scene_builder, update, render, swap_buffers; when
\* render fails the steps stop there.  Both slots are empty after every
\* flush, also after a failed one, and a flush right after a flush makes no
\* call at all.
\* Violated: a flush that panics reading the size of the window has not
\* taken the slots yet, and leaves an open display list open.
C15_FlushStepsInOrder ==
    [][ FlushStep =>
          /\ IsNone(display_list_builder') /\ IsNone(current_txn')
          /\ (IsSome(display_list_builder) /\ IsSome(current_txn)) =>
                LET made == SubSeq(calls', Len(calls) + 1, Len(calls'))
                    steps == SelectSeq(StepsOf(made), IsFlushStep)
                IN  /\ SubSeq(calls', 1, Len(calls)) = calls
                    /\ made[1].call = "send_transaction"
                    /\ made[1].txn[Len(made[1].txn) - 1].epoch = <<0>>
                    /\ IF output_status' = "running"
                       THEN steps = FlushSteps
                       ELSE steps = SubSeq(FlushSteps, 1, Len(FlushSteps) - 1)
          /\ (Len(history) > 0 /\ Last(history).op = "flush") => calls' = calls
      ]_vars

\* C18: the layout size of every set_display_list is the layout size the
\* builder of that display list was created with.
C18_LayoutSizeOfFirstDisplay ==
    \A i \in 1..Len(calls) :
        calls[i].call = "send_transaction" =>
            \A j \in 1..Len(calls[i].txn) :
                calls[i].txn[j].msg = "set_display_list" =>
                    calls[i].txn[j].layout_size = calls[i].txn[j].content_size

(***************************************************************************)
(*                     Properties of the font driver                       *)
(***************************************************************************)
\* the items of the in-progress display list
OpenItems(builder) == IF IsSome(builder) THEN Unwrap(builder).items ELSE <<>>

\* the advance of glyph g, 0 when its dimensions are unknown
AdvanceOf(g) ==
    IF GlyphDimensions[g] = <<>> THEN 0 ELSE GlyphDimensions[g][1].advance

\* C14: a draw of the run from..to at (x, y) appends to the in-progress
\* display list one rectangle iff with_background is set and then one text
\* call, and returns 1; the text call holds the glyphs from..to of the
\* string, glyph 0 at x and glyph i > 0 at the position of glyph i-1 plus the
\* advance of glyph i-1 (0 when unknown), all at height y.
\* draw_glyph_string makes this draw, with background and for 0..nchars, for
\* a character glyph string, and for another glyph type makes no draw and
\* leaves the display list as it was.
C14_DrawItems ==
    [][ /\ (Len(history') > Len(history) /\ Last(history').op = "draw") =>
              LET c == Last(history')
                  old == OpenItems(display_list_builder)
                  new == OpenItems(display_list_builder')
                  added == SubSeq(new, Len(old) + 1, Len(new))
                  text == added[Len(added)]
              IN  /\ IsSome(display_list_builder')
                  /\ SubSeq(new, 1, Len(old)) = old
                  /\ c.ret = 1
                  /\ Len(added) = IF c.with_background THEN 2 ELSE 1
                  /\ c.with_background => added[1].item = "rect"
                  /\ text.item = "text"
                  /\ Len(text.glyphs) = c.to - c.from
                  /\ \A i \in 1..Len(text.glyphs) :
                        /\ text.glyphs[i].index = c.s.chars[c.from + i]
                        /\ text.glyphs[i].point[2] = c.y
                        /\ text.glyphs[i].point[1] =
                               IF i = 1 THEN c.x
                               ELSE text.glyphs[i - 1].point[1]
                                        + AdvanceOf(text.glyphs[i - 1].index)
        /\ (Len(history') > Len(history)
              /\ history'[Len(history) + 1].op = "draw_glyph_string") =>
              LET s == history'[Len(history) + 1].s
              IN  IF s.type = "CHAR_GLYPH"
                  THEN /\ Len(history') = Len(history) + 2
                       /\ Last(history').op = "draw"
                       /\ Last(history').s = s
                       /\ Last(history').from = 0
                       /\ Last(history').to = s.nchars
                       /\ Last(history').with_background
                  ELSE /\ Len(history') = Len(history) + 1
                       /\ display_list_builder' = display_list_builder
                       /\ calls' = calls
      ]_vars

\* draw_glyph_string drew the background and the three glyphs of a character
\* glyph string, the last two at the same place as the second has no known
\* dimensions
C14_Witness ==
    /\ Len(history) = 3
    /\ history[1].op = "open"
    /\ history[1].outcome = "ok"
    /\ history[2].op = "draw_glyph_string"
    /\ history[3].op = "draw"
    /\ Len(OpenItems(display_list_builder)) = 2
    /\ OpenItems(display_list_builder)[1].item = "rect"
    /\ OpenItems(display_list_builder)[2].item = "text"
    /\ Len(OpenItems(display_list_builder)[2].glyphs) = 3
    /\ OpenItems(display_list_builder)[2].glyphs[1].point = <<4, 30>>
    /\ OpenItems(display_list_builder)[2].glyphs[2].point = <<13, 30>>
    /\ OpenItems(display_list_builder)[2].glyphs[3].point = <<13, 30>>

====
